---- MODULE Spec2Model ----
(***************************************************************************)
(* Model of the oracle aggregator (aggregator-server/src/main.rs) and of   *)
(* the Binance ingestion client (src/binance.rs).                          *)
(*                                                                         *)
(* Three specifications share the variables:                               *)
(*   Spec        the aggregator: concurrent RPC handlers over one          *)
(*               Arc<RwLock<AggregatorState>>;                             *)
(*   SpecMedian  calculate_median_price as a pure function of (log, now);  *)
(*   SpecFetch   one invocation of fetch_btc_price (the retry loop).       *)
(***************************************************************************)
EXTENDS Integers, Sequences, FiniteSets, TLC

(***************************************************************************)
(* f64 values.  A float is <<"fin", v>>, <<"nan", 0>>, <<"inf", 0>> or     *)
(* <<"ninf", 0>>.  The aggregator's finite prices are held in half units   *)
(* (v = 2 * price), so that the mean of two whole-unit prices,             *)
(* (a + b) / 2.0, is exact as in f64; the ingestion client's are held in   *)
(* thousandths (v = 1000 * price).                                         *)
(***************************************************************************)
Fin(v) == <<"fin", v>>
NaN == <<"nan", 0>>
PosInf == <<"inf", 0>>
NegInf == <<"ninf", 0>>
Units(x) == Fin(2 * x)
IsNaN(f) == f[1] = "nan"

\* f64 comparisons: every comparison with NaN is false.
FLe(a, b) ==
    /\ ~IsNaN(a)
    /\ ~IsNaN(b)
    /\ \/ a[1] = "ninf"
       \/ b[1] = "inf"
       \/ a[1] = "fin" /\ b[1] = "fin" /\ a[2] <= b[2]
FLt(a, b) == FLe(a, b) /\ a # b

\* (a + b) / 2.0
FMean(a, b) ==
    IF IsNaN(a) \/ IsNaN(b) THEN NaN
    ELSE IF a[1] = "fin" /\ b[1] = "fin" THEN Fin((a[2] + b[2]) \div 2)
    ELSE IF {a[1], b[1]} = {"inf", "ninf"} THEN NaN
    ELSE IF "inf" \in {a[1], b[1]} THEN PosInf
    ELSE NegInf

(***************************************************************************)
(* Program constants of the aggregator.                                    *)
(***************************************************************************)
MAX_ENTRIES == 100
FRESHNESS_WINDOW == 60
LIVENESS_TIMEOUT == 120
RECENT_COUNT == 10

(***************************************************************************)
(* Bounds of the model.                                                    *)
(***************************************************************************)
T0 == 1000          \* Unix time of the first modelled instant
MaxTicks == 1       \* clock advances per behaviour
MaxCalls == 2       \* RPC calls started per behaviour
FutureSkew == 5     \* how far ahead of the server a reporter's clock may be
PrefillLen == 99    \* entries already in the log of the aged initial state
PrefillAge == 200   \* age of those entries and of their reporter's record

Procs == {"t1", "t2"}
Nodes == {"n1", "n2"}
TickSteps == {FRESHNESS_WINDOW, LIVENESS_TIMEOUT}

\* the SubmitPrice requests tried at server time t: <<price, timestamp, node_id>>
SubmitInputs(t) ==
    { <<Units(100), t, "n1">>,
      <<Units(0), t, "n2">>,
      <<Units(-100), t + FutureSkew, "n2">> }

VARIABLES
    now,             \* Utc::now().timestamp()
    ticks,           \* clock advances so far
    calls,           \* calls started so far
    prices,          \* AggregatorState.prices
    active_nodes,    \* AggregatorState.active_nodes
    waitq,           \* the RwLock's FIFO wait queue: <<task, mode>>
    rheld,           \* tasks holding a read guard across an await
    pc,              \* each task's position in its handler
    req,             \* each task's request
    cur,             \* each task's local current_time
    recent,          \* get_aggregated_price's local recent_prices
    resp,            \* each task's last response
    granted,         \* history: submissions in the order they were stored
    swept_at,        \* history: Len(granted) when each task's sweep was applied
    median_result,   \* SpecMedian: what calculate_median_price returned
    price_in,        \* SpecPrice: the close price parsed from the kline
    price_out,       \* SpecPrice: what validation and conversion made of it
    f_pc, attempt, waited, f_result, f_hist  \* the ingestion client

vars == <<now, ticks, calls, prices, active_nodes, waitq,
          rheld, pc, req, cur, recent, resp, granted, swept_at,
          median_result, price_in, price_out,
          f_pc, attempt, waited, f_result, f_hist>>

engine_vars == <<now, ticks, calls, prices, active_nodes,
                 waitq, rheld, pc, req, cur, recent, resp, granted, swept_at>>
fetch_vars == <<f_pc, attempt, waited, f_result, f_hist>>
pure_vars == <<median_result, price_in, price_out>>
other_vars == <<pure_vars, fetch_vars>>

(***************************************************************************)
(* calculate_median_price (main.rs 53-78), as a function of the log, the   *)
(* time it reads and the build.                                            *)
(***************************************************************************)

\* `a - b < k` on u64 (main.rs 61, 87).  With a >= b it is the plain
\* difference.  With a < b the subtraction overflows: a build with overflow
\* checks panics (see SubOverflows), any other wraps to 2^64 - (b - a), which
\* is below k only when b - a > 2^64 - k; no time of the model is that large.
U64SubLt(a, b, k) == IF a >= b THEN a - b < k ELSE FALSE

SubOverflows(a, b) == a < b

\* the window test with `<=` in place of `<`
IsFresh_Inclusive(e, t) == U64SubLt(t, e.timestamp, FRESHNESS_WINDOW + 1)

\* the filter closure of line 61
IsFresh(e, t) == U64SubLt(t, e.timestamp, FRESHNESS_WINDOW)

\* Vec::sort_by on a.partial_cmp(b).unwrap(): ascending insertion
RECURSIVE InsertSorted(_, _)
InsertSorted(x, s) ==
    IF s = <<>> THEN <<x>>
    ELSE IF FLe(x, Head(s)) THEN <<x>> \o s
    ELSE <<Head(s)>> \o InsertSorted(x, Tail(s))

RECURSIVE SortPrices(_)
SortPrices(s) == IF s = <<>> THEN <<>> ELSE InsertSorted(Head(s), SortPrices(Tail(s)))

\* partial_cmp(..).unwrap() panics as soon as a NaN is compared, which any
\* sort of two or more elements does with each of them
SortPanics(s) == Len(s) >= 2 /\ \E i \in 1..Len(s) : IsNaN(s[i])

\* the median taking the upper middle element whatever the length
MedianOfSorted_UpperMiddle(s) == s[Len(s) \div 2 + 1]

\* lines 72-77, on the sorted prices (1-based: sorted[k] is s[k + 1])
MedianOfSorted(s) ==
    LET len == Len(s) IN
    IF len % 2 = 0
    THEN FMean(s[len \div 2], s[len \div 2 + 1])
    ELSE s[len \div 2 + 1]

RECURSIVE PricesOf(_)
PricesOf(s) == IF s = <<>> THEN <<>> ELSE <<Head(s).price>> \o PricesOf(Tail(s))

FreshPrices(log, t) == PricesOf(SelectSeq(log, LAMBDA e : IsFresh(e, t)))

\* <<"none">>, <<"some", median>> or <<"panic">>
calculate_median_price(log, t, checks) ==
    IF checks /\ \E i \in 1..Len(log) : SubOverflows(t, log[i].timestamp)
    THEN <<"panic">>
    ELSE LET recent_prices == FreshPrices(log, t) IN
         IF recent_prices = <<>> THEN <<"none">>
         ELSE IF SortPanics(recent_prices) THEN <<"panic">>
         ELSE <<"some", MedianOfSorted(SortPrices(recent_prices))>>

(***************************************************************************)
(* The aggregator's state and its pure helpers.                            *)
(***************************************************************************)

\* PriceEntry (main.rs 24-29)
PriceEntry(price, timestamp, source, node_id) ==
    [price |-> price, timestamp |-> timestamp, source |-> source, node_id |-> node_id]

\* TrimLog dropping the newest entries instead of the oldest
TrimLog_DropsNewest(log) ==
    IF Len(log) > MAX_ENTRIES THEN SubSeq(log, 1, MAX_ENTRIES) ELSE log

\* lines 121-124: drain(0..len - 100) when len > 100
TrimLog(log) ==
    IF Len(log) > MAX_ENTRIES
    THEN LET drain_count == Len(log) - MAX_ENTRIES IN
         SubSeq(log, drain_count + 1, Len(log))
    ELSE log

\* HashMap::insert (line 127)
Insert(map, k, v) == [n \in DOMAIN map \cup {k} |-> IF n = k THEN v ELSE map[n]]

\* the retain test with `<=` in place of `<`
Retained_Inclusive(last_seen, t) == U64SubLt(t, last_seen, LIVENESS_TIMEOUT + 1)

\* the retain closure of lines 86-88
Retained(last_seen, t) == U64SubLt(t, last_seen, LIVENESS_TIMEOUT)

Sweep(map, t) == [n \in {m \in DOMAIN map : Retained(map[m], t)} |-> map[n]]

SweepPanics(map, t, checks) == checks /\ \E n \in DOMAIN map : SubOverflows(t, map[n])

\* the newest entries in arrival order, without the rev()
RecentOf_ArrivalOrder(log) ==
    LET n == IF Len(log) < RECENT_COUNT THEN Len(log) ELSE RECENT_COUNT IN
    SubSeq(log, Len(log) - n + 1, Len(log))

\* lines 192-207: iter().rev().take(10), each entry copied field by field
RecentOf(log) ==
    LET n == IF Len(log) < RECENT_COUNT THEN Len(log) ELSE RECENT_COUNT IN
    [i \in 1..n |-> PriceEntry(log[Len(log) - i + 1].price,
                               log[Len(log) - i + 1].timestamp,
                               log[Len(log) - i + 1].source,
                               log[Len(log) - i + 1].node_id)]

\* Option::unwrap_or
UnwrapOr(r, d) == IF r[1] = "some" THEN r[2] ELSE d

NoReq == [kind |-> "none"]
NoResp == [op |-> "none"]
Panicked == [op |-> "panic"]
EmptyMap == [n \in {} |-> 0]

\* an aged engine: PrefillLen submissions of one reporter, PrefillAge seconds ago
OldEntry == PriceEntry(Units(100), T0 - PrefillAge, "binance", "n1")
PrefilledLog == [i \in 1..PrefillLen |-> OldEntry]

\* the engine holding `log` and `map`, no call in flight
EngineAt(log, map) ==
    /\ now = T0
    /\ ticks = 0
    /\ calls = 0
    /\ prices = log
    /\ active_nodes = map
    /\ granted = log
    /\ swept_at = [p \in Procs |-> 0]
    /\ waitq = <<>>
    /\ rheld = {}
    /\ pc = [p \in Procs |-> "idle"]
    /\ req = [p \in Procs |-> NoReq]
    /\ cur = [p \in Procs |-> 0]
    /\ recent = [p \in Procs |-> <<>>]
    /\ resp = [p \in Procs |-> NoResp]

\* AggregatorServiceImpl::new (lines 43-50), or the aged engine
InitEngine ==
    \/ EngineAt(<<>>, EmptyMap)
    \/ EngineAt(PrefilledLog, Insert(EmptyMap, "n1", T0 - PrefillAge))

\* no pure function has been applied
PureIdle ==
    /\ median_result = <<"idle">>
    /\ price_in = Fin(0)
    /\ price_out = <<"idle">>

FetchIdle ==
    /\ f_pc = "off"
    /\ attempt = 0
    /\ waited = 0
    /\ f_result = <<"none">>
    /\ f_hist = <<>>

(***************************************************************************)
(* tokio::sync::RwLock: a fair lock with a FIFO wait queue.  A task asks   *)
(* for the lock by joining the queue and is granted it at the head of the  *)
(* queue: a reader whenever no writer holds the lock, a writer when nobody *)
(* does.  A section that takes the lock, works and drops the guard without *)
(* awaiting in between is one step, so a writer is never seen holding the  *)
(* lock; rheld holds the readers that keep a guard across an await.        *)
(***************************************************************************)
Enqueue(p, mode) == waitq' = Append(waitq, <<p, mode>>)
ReadGranted(p) == waitq # <<>> /\ Head(waitq) = <<p, "R">>
WriteGranted(p) == waitq # <<>> /\ Head(waitq) = <<p, "W">> /\ rheld = {}

\* the server runs each call as a task of its own: tasks are interchangeable,
\* and a call that arrives runs as the first task that is idle
Earlier(p) == IF p = "t2" THEN {"t1"} ELSE {}
CanStart(p) ==
    /\ pc[p] = "idle"
    /\ calls < MaxCalls
    /\ \A q \in Earlier(p) : pc[q] # "idle"

\* where a task's next step reads the clock (lines 106, 83, 55, 163, 193)
ReadsClockNext(p) ==
    \/ CanStart(p)
    \/ pc[p] \in {"cleanup_retain", "median_compute", "health_respond",
                  "get_recent", "get_respond"}

\* the clock: time that passes is seen by the next task that reads it
Tick(d) ==
    /\ ticks < MaxTicks
    /\ \E p \in Procs : ReadsClockNext(p)
    /\ now' = now + d
    /\ ticks' = ticks + 1
    /\ UNCHANGED <<calls, prices, active_nodes, waitq, rheld,
                   pc, req, cur, recent, resp, granted, swept_at>>
    /\ UNCHANGED other_vars

(***************************************************************************)
(* submit_price (lines 95-148)                                             *)
(***************************************************************************)

\* lines 99-106: the request arrives, current_time is read
SubmitStart(p, price, ts, node) ==
    /\ CanStart(p)
    /\ calls' = calls + 1
    /\ req' = [req EXCEPT ![p] = PriceEntry(price, ts, "binance", node)]
    /\ cur' = [cur EXCEPT ![p] = now]
    /\ resp' = [resp EXCEPT ![p] = NoResp]
    /\ pc' = [pc EXCEPT ![p] = "submit_write"]
    /\ UNCHANGED <<now, ticks, prices, active_nodes, waitq,
                   rheld, recent, granted, swept_at>>
    /\ UNCHANGED other_vars

\* line 110: self.state.write().await
SubmitWrite(p) ==
    /\ pc[p] = "submit_write"
    /\ Enqueue(p, "W")
    /\ pc' = [pc EXCEPT ![p] = "submit_store"]
    /\ UNCHANGED <<now, ticks, calls, prices, active_nodes,
                   rheld, req, cur, recent, resp, granted, swept_at>>
    /\ UNCHANGED other_vars

\* a store that also drops the entries outside the freshness window
SubmitStore_PurgesStale(p) ==
    /\ pc[p] = "submit_store"
    /\ WriteGranted(p)
    /\ waitq' = Tail(waitq)
    /\ prices' = SelectSeq(TrimLog(Append(prices, req[p])),
                         LAMBDA e : IsFresh(e, now))
    /\ active_nodes' = Insert(active_nodes, req[p].node_id, cur[p])
    /\ granted' = Append(granted, req[p])
    /\ req' = [req EXCEPT ![p] = NoReq]
    /\ pc' = [pc EXCEPT ![p] = "cleanup_write"]
    /\ UNCHANGED <<now, ticks, calls, rheld, cur, recent, resp, swept_at>>
    /\ UNCHANGED other_vars

\* lines 110-128 under the write guard: push, trim, insert
SubmitStore(p) ==
    /\ pc[p] = "submit_store"
    /\ WriteGranted(p)
    /\ waitq' = Tail(waitq)
    /\ prices' = TrimLog(Append(prices, req[p]))
    /\ active_nodes' = Insert(active_nodes, req[p].node_id, cur[p])
    /\ granted' = Append(granted, req[p])
    /\ req' = [req EXCEPT ![p] = NoReq]
    /\ pc' = [pc EXCEPT ![p] = "cleanup_write"]
    /\ UNCHANGED <<now, ticks, calls, rheld, cur, recent, resp, swept_at>>
    /\ UNCHANGED other_vars

\* line 131 -> line 82: cleanup_inactive_nodes asks for the write lock
CleanupWrite(p) ==
    /\ pc[p] = "cleanup_write"
    /\ Enqueue(p, "W")
    /\ pc' = [pc EXCEPT ![p] = "cleanup_retain"]
    /\ UNCHANGED <<now, ticks, calls, prices, active_nodes,
                   rheld, req, cur, recent, resp, granted, swept_at>>
    /\ UNCHANGED other_vars

\* lines 82-89 under the write guard
CleanupRetain(p, overflow_checks) ==
    /\ pc[p] = "cleanup_retain"
    /\ WriteGranted(p)
    /\ waitq' = Tail(waitq)
    /\ IF SweepPanics(active_nodes, now, overflow_checks)
       THEN /\ pc' = [pc EXCEPT ![p] = "idle"]
            /\ resp' = [resp EXCEPT ![p] = Panicked]
            /\ req' = [req EXCEPT ![p] = NoReq]
            /\ cur' = [cur EXCEPT ![p] = 0]
            /\ UNCHANGED <<active_nodes, swept_at>>
       ELSE /\ active_nodes' = Sweep(active_nodes, now)
            /\ swept_at' = [swept_at EXCEPT ![p] = Len(granted)]
            /\ pc' = [pc EXCEPT ![p] = "median_read"]
            /\ UNCHANGED <<resp, req, cur>>
    /\ UNCHANGED <<now, ticks, calls, prices, rheld, recent, granted>>
    /\ UNCHANGED other_vars

\* line 134 -> line 54: calculate_median_price asks for the read lock
SubmitMedianRead(p) ==
    /\ pc[p] = "median_read"
    /\ Enqueue(p, "R")
    /\ pc' = [pc EXCEPT ![p] = "median_compute"]
    /\ UNCHANGED <<now, ticks, calls, prices, active_nodes,
                   rheld, req, cur, recent, resp, granted, swept_at>>
    /\ UNCHANGED other_vars

\* lines 54-78 under the read guard, then lines 136-147: the response
SubmitRespond(p, overflow_checks) ==
    /\ pc[p] = "median_compute"
    /\ ReadGranted(p)
    /\ waitq' = Tail(waitq)
    /\ LET median_price == calculate_median_price(prices, now, overflow_checks) IN
       resp' = [resp EXCEPT ![p] =
                  IF median_price = <<"panic">> THEN Panicked
                  ELSE [op |-> "submit", success |-> TRUE,
                        aggregated_price |-> median_price, timestamp |-> cur[p]]]
    /\ pc' = [pc EXCEPT ![p] = "idle"]
    /\ req' = [req EXCEPT ![p] = NoReq]
    /\ cur' = [cur EXCEPT ![p] = 0]
    /\ swept_at' = [swept_at EXCEPT ![p] = 0]
    /\ UNCHANGED <<now, ticks, calls, prices, active_nodes,
                   rheld, recent, granted>>
    /\ UNCHANGED other_vars

(***************************************************************************)
(* health_check (lines 157-174)                                            *)
(***************************************************************************)

\* line 162: self.state.read().await
HealthRead(p) ==
    /\ CanStart(p)
    /\ calls' = calls + 1
    /\ Enqueue(p, "R")
    /\ resp' = [resp EXCEPT ![p] = NoResp]
    /\ pc' = [pc EXCEPT ![p] = "health_respond"]
    /\ UNCHANGED <<now, ticks, prices, active_nodes, rheld,
                   req, cur, recent, granted, swept_at>>
    /\ UNCHANGED other_vars

\* a health check that counts only the reporters a sweep would keep
HealthRespond_CountsLive(p) ==
    /\ pc[p] = "health_respond"
    /\ ReadGranted(p)
    /\ waitq' = Tail(waitq)
    /\ resp' = [resp EXCEPT ![p] =
                  [op |-> "health", healthy |-> TRUE, timestamp |-> now,
                   active_nodes |-> Cardinality(DOMAIN Sweep(active_nodes, now))]]
    /\ pc' = [pc EXCEPT ![p] = "idle"]
    /\ UNCHANGED <<now, ticks, calls, prices, active_nodes,
                   rheld, req, cur, recent, granted, swept_at>>
    /\ UNCHANGED other_vars

\* lines 166-173 under the read guard
HealthRespond(p) ==
    /\ pc[p] = "health_respond"
    /\ ReadGranted(p)
    /\ waitq' = Tail(waitq)
    /\ resp' = [resp EXCEPT ![p] =
                  [op |-> "health", healthy |-> TRUE, timestamp |-> now,
                   active_nodes |-> Cardinality(DOMAIN active_nodes)]]
    /\ pc' = [pc EXCEPT ![p] = "idle"]
    /\ UNCHANGED <<now, ticks, calls, prices, active_nodes,
                   rheld, req, cur, recent, granted, swept_at>>
    /\ UNCHANGED other_vars

(***************************************************************************)
(* get_aggregated_price (lines 188-220)                                    *)
(***************************************************************************)

\* line 192: self.state.read().await
GetRead(p) ==
    /\ CanStart(p)
    /\ calls' = calls + 1
    /\ Enqueue(p, "R")
    /\ resp' = [resp EXCEPT ![p] = NoResp]
    /\ pc' = [pc EXCEPT ![p] = "get_recent"]
    /\ UNCHANGED <<now, ticks, prices, active_nodes, rheld,
                   req, cur, recent, granted, swept_at>>
    /\ UNCHANGED other_vars

\* lines 192-207: the guard `state` is taken and kept; current_time and
\* recent_prices are computed
GetRecent(p) ==
    /\ pc[p] = "get_recent"
    /\ ReadGranted(p)
    /\ waitq' = Tail(waitq)
    /\ rheld' = rheld \cup {p}
    /\ cur' = [cur EXCEPT ![p] = now]
    /\ recent' = [recent EXCEPT ![p] = RecentOf(prices)]
    /\ pc' = [pc EXCEPT ![p] = "get_median_read"]
    /\ UNCHANGED <<now, ticks, calls, prices, active_nodes,
                   req, resp, granted, swept_at>>
    /\ UNCHANGED other_vars

\* line 209 -> line 54: calculate_median_price asks for the read lock again,
\* with the guard of line 192 still held
GetMedianRead(p) ==
    /\ pc[p] = "get_median_read"
    /\ Enqueue(p, "R")
    /\ pc' = [pc EXCEPT ![p] = "get_respond"]
    /\ UNCHANGED <<now, ticks, calls, prices, active_nodes,
                   rheld, req, cur, recent, resp, granted, swept_at>>
    /\ UNCHANGED other_vars

\* lines 54-78 under the second guard, then lines 209-219; both guards drop
GetRespond(p, overflow_checks) ==
    /\ pc[p] = "get_respond"
    /\ ReadGranted(p)
    /\ waitq' = Tail(waitq)
    /\ rheld' = rheld \ {p}
    /\ LET result == calculate_median_price(prices, now, overflow_checks) IN
       resp' = [resp EXCEPT ![p] =
                  IF result = <<"panic">> THEN Panicked
                  ELSE [op |-> "get", success |-> TRUE,
                        aggregated_price |-> UnwrapOr(result, Fin(0)),
                        data_points |-> Len(recent[p]),
                        last_update |-> cur[p],
                        recent_prices |-> recent[p]]]
    /\ pc' = [pc EXCEPT ![p] = "idle"]
    /\ cur' = [cur EXCEPT ![p] = 0]
    /\ recent' = [recent EXCEPT ![p] = <<>>]
    /\ UNCHANGED <<now, ticks, calls, prices, active_nodes,
                   req, granted, swept_at>>
    /\ UNCHANGED other_vars

\* one step of task p.  overflow_checks is the build profile: with it a u64
\* subtraction that overflows panics, without it the subtraction wraps.
Step(p) ==
    \/ \E r \in SubmitInputs(now) : SubmitStart(p, r[1], r[2], r[3])
    \/ SubmitWrite(p)
    \/ SubmitStore(p)
    \/ CleanupWrite(p)
    \/ \E overflow_checks \in BOOLEAN : CleanupRetain(p, overflow_checks)
    \/ SubmitMedianRead(p)
    \/ \E overflow_checks \in BOOLEAN : SubmitRespond(p, overflow_checks)
    \/ HealthRead(p)
    \/ HealthRespond(p)
    \/ GetRead(p)
    \/ GetRecent(p)
    \/ GetMedianRead(p)
    \/ \E overflow_checks \in BOOLEAN : GetRespond(p, overflow_checks)

Init == InitEngine /\ PureIdle /\ FetchIdle

Next ==
    \/ \E d \in TickSteps : Tick(d)
    \/ \E p \in Procs : Step(p)

Spec == Init /\ [][Next]_vars

(***************************************************************************)
(* Claims about the aggregator under concurrency (Spec).                   *)
(***************************************************************************)

\* a submission whose push, trim and insert are applied and whose sweep is
\* not, in a state that differs from the one its sweep will leave
PartiallyApplied(p) ==
    /\ pc[p] \in {"cleanup_write", "cleanup_retain"}
    /\ Sweep(active_nodes, now) # active_nodes

\* the steps in which HealthCheck and GetAggregatedPrice read the state
ReadsState(r) ==
    \/ HealthRespond(r)
    \/ GetRecent(r)
    \/ \E overflow_checks \in BOOLEAN : GetRespond(r, overflow_checks)

\* C1: no read operation observes a partially applied submission: whenever
\* HealthCheck or GetAggregatedPrice reads the state, every submission has
\* had none or all of append, trim, liveness touch and sweep applied.
C1_ReadsSeeWholeSubmissions ==
    [][\A r \in Procs : ReadsState(r) => \A p \in Procs : ~PartiallyApplied(p)]_vars

InFlight(p) == pc[p] # "idle"

\* C2: no reachable state is a deadlock: while calls are in flight, one of
\* them can take its next step (so every call granted the lock returns).
C2_NoDeadlock ==
    (\E p \in Procs : InFlight(p)) => \E p \in Procs : InFlight(p) /\ ENABLED Step(p)

\* C3: while a reporter's liveness record exists, its last_seen never
\* decreases from one state to the next.
C3_LastSeenMonotonic ==
    [][\A n \in DOMAIN active_nodes \cap DOMAIN active_nodes' :
          active_nodes'[n] >= active_nodes[n]]_vars

LastN(s, n) == SubSeq(s, Len(s) - n + 1, Len(s))
Min(a, b) == IF a < b THEN a ELSE b

\* C4: the log never holds more than MAX_ENTRIES entries and is exactly the
\* last min(k, MAX_ENTRIES) of the k submissions stored so far, in the order
\* in which they were granted the write lock.
C4_LogIsLastGranted ==
    /\ Len(prices) <= MAX_ENTRIES
    /\ prices = LastN(granted, Min(Len(granted), MAX_ENTRIES))

\* C4 witness: more than MAX_ENTRIES submissions were stored, the last two
\* of them different, one carrying a timestamp ahead of the older one's
C4_Witness ==
    /\ Len(granted) > MAX_ENTRIES
    /\ Len(prices) = MAX_ENTRIES
    /\ prices[MAX_ENTRIES - 1] # OldEntry
    /\ prices[MAX_ENTRIES - 1].timestamp > prices[MAX_ENTRIES].timestamp

\* C7: a SubmitPrice call carrying a non-positive price is rejected before
\* any mutation: the step that stores a submission leaves the log and the
\* liveness map as they were when the price is zero or negative.
C7_NonPositivePriceRejected ==
    [][\A p \in Procs :
          (SubmitStore(p) /\ FLe(req[p].price, Fin(0)))
             => (prices' = prices /\ active_nodes' = active_nodes)]_vars

(***************************************************************************)
(* SpecMedian: calculate_median_price on every log of up to MaxLogLen      *)
(* entries drawn from MedianEntries, read at time T0.                      *)
(***************************************************************************)
MaxLogLen == 5

MedianEntries ==
    {PriceEntry(Units(x), T0 - age, "binance", "n1") :
        x \in {100, 200, 300, 1000}, age \in {FRESHNESS_WINDOW - 1, FRESHNESS_WINDOW}}
    \cup {PriceEntry(NaN, T0 - (FRESHNESS_WINDOW - 1), "binance", "n2"),
          PriceEntry(Units(100), T0 + FutureSkew, "binance", "n2")}

MedianLogs == UNION {[1..n -> MedianEntries] : n \in 0..MaxLogLen}

InitMedian ==
    /\ \E log \in MedianLogs : EngineAt(log, EmptyMap)
    /\ PureIdle
    /\ FetchIdle

ComputeMedian(overflow_checks) ==
    /\ median_result = <<"idle">>
    /\ median_result' = calculate_median_price(prices, now, overflow_checks)
    /\ UNCHANGED <<engine_vars, fetch_vars, price_in, price_out>>

NextMedian == \E overflow_checks \in BOOLEAN : ComputeMedian(overflow_checks)

SpecMedian == InitMedian /\ [][NextMedian]_vars

\* the prices of the entries whose age at t is within the freshness window
PricesInWindow(log, t) ==
    PricesOf(SelectSeq(log, LAMBDA e :
        e.timestamp <= t /\ t - e.timestamp < FRESHNESS_WINDOW))

\* v is the k-th smallest element of s, equal elements counted one by one
IsKthSmallest(s, v, k) ==
    /\ \E i \in 1..Len(s) : s[i] = v
    /\ Cardinality({i \in 1..Len(s) : FLt(s[i], v)}) < k
    /\ k <= Cardinality({i \in 1..Len(s) : FLt(s[i], v) \/ s[i] = v})

IsStatisticalMedian(s, m) ==
    LET n == Len(s) IN
    IF n % 2 = 1
    THEN IsKthSmallest(s, m, (n + 1) \div 2)
    ELSE \E i, j \in 1..n :
            /\ IsKthSmallest(s, s[i], n \div 2)
            /\ IsKthSmallest(s, s[j], n \div 2 + 1)
            /\ m[1] = "fin"
            /\ 2 * m[2] = s[i][2] + s[j][2]

\* C5: a consensus value is the statistical median of the fresh prices:
\* the middle one of an odd number, the mean of the two middle ones of an
\* even number, equal prices counted one by one.
C5_MedianOfFresh ==
    median_result[1] = "some"
        => /\ PricesInWindow(prices, now) # <<>>
           /\ IsStatisticalMedian(PricesInWindow(prices, now), median_result[2])

\* C5 witness: fresh 1000, 100, 300, 200 and a stale entry give 250
C5_Witness ==
    /\ PricesInWindow(prices, now) = <<Units(1000), Units(100), Units(300), Units(200)>>
    /\ Len(prices) > 4
    /\ median_result = <<"some", Units(250)>>

Age(e, t) == t - e.timestamp

MAX_RETRIES == 3

Str(x) == <<"str", x>>
Num(n) == <<"num", n>>

\* str::parse::<f64> on the close prices of the model, in thousandths
ParseF64(x) ==
    CASE x = "50000.129" -> <<"ok", Fin(50000129)>>
      [] x = "999.995" -> <<"ok", Fin(999995)>>
      [] x = "0" -> <<"ok", Fin(0)>>
      [] x = "-100" -> <<"ok", Fin(-100000)>>
      [] x = "NaN" -> <<"ok", NaN>>
      [] x = "inf" -> <<"ok", PosInf>>
      [] OTHER -> <<"err", "Failed to parse close price as number">>

\* validate_price (lines 178-192): TRUE when it returns Ok
validate_price(price) == ~FLe(price, Fin(0))

\* `(close_price * 100.0) as u64` (line 156): the cast truncates toward
\* zero and saturates; NaN becomes 0.  A price of v thousandths is
\* v * 100 / 1000 = v / 10 cents.
U64_MAX == <<"u64_max", 0>>
ToCents(close_price) ==
    CASE close_price[1] = "nan" -> <<"u64", 0>>
      [] close_price[1] = "inf" -> U64_MAX
      [] close_price[1] = "ninf" -> <<"u64", 0>>
      [] OTHER -> IF close_price[2] <= 0 THEN <<"u64", 0>>
                  ELSE <<"u64", close_price[2] \div 10>>

\* handle_http_error (lines 165-175)
handle_http_error(status_code) ==
    CASE status_code = 400 -> <<"err", "Bad request - Check API parameters">>
      [] status_code = 401 -> <<"err", "Unauthorized - API key issue">>
      [] status_code = 403 -> <<"err", "Forbidden - Access denied">>
      [] status_code = 404 -> <<"err", "Not found - Check symbol/interval (BTCUSDT/1m)">>
      [] status_code = 429 -> <<"err", "Rate limit exceeded - Too many requests">>
      [] status_code >= 500 /\ status_code <= 599 ->
            <<"err", "Binance server error - Try again later">>
      [] OTHER -> <<"err", "HTTP error">>

\* StatusCode::is_success
IsSuccess(status_code) == status_code >= 200 /\ status_code <= 299

\* lines 126-161, on the first K-line record
ExtractPrice(kline, t) ==
    IF Len(kline) < 5 THEN <<"panic", "index out of bounds">>
    ELSE IF kline[5][1] # "str" THEN <<"err", "Close price is not a string">>
    ELSE IF ParseF64(kline[5][2])[1] = "err" THEN ParseF64(kline[5][2])
    ELSE IF kline[1][1] # "num" THEN <<"err", "Timestamp is not a number">>
    ELSE LET close_price == ParseF64(kline[5][2])[2] IN
         IF ~validate_price(close_price)
         THEN <<"err", "Invalid price: must be positive">>
         ELSE <<"ok", [price |-> ToCents(close_price), timestamp |-> t,
                       source |-> "binance"]>>

\* fetch_btc_price_once (lines 79-162) on the response r received at time t:
\* <<"ok", price_data>>, <<"err", message>> or <<"panic", message>>
fetch_btc_price_once(r, t) ==
    IF r.net = "err" THEN <<"err", "Failed to send request to Binance">>
    ELSE IF ~IsSuccess(r.status) THEN handle_http_error(r.status)
    ELSE IF r.json = "err" THEN <<"err", "Failed to parse Binance JSON response">>
    ELSE IF r.klines = <<>> THEN <<"err", "No K-line data received from Binance">>
    ELSE ExtractPrice(r.klines[1], t)

\* the backoff starting at 2 seconds
wait_time_Doubled(n) == 2 ^ n

\* line 58: 2_u64.pow(attempt - 1)
wait_time(n) == 2 ^ (n - 1)

\* the match of lines 52-72 on the result of attempt n: where the loop goes
RetryArm(res, n, max_retries) ==
    CASE res[1] = "ok" -> "success"
      [] res[1] = "err" /\ n < max_retries -> "sleep"
      [] res[1] = "err" -> "failure"
      [] OTHER -> "panicked"

\* the responses tried
Response(net, status, json, klines) ==
    [net |-> net, status |-> status, json |-> json, klines |-> klines]

\* a full K-line record with the given open time and close price
Kline(open_time, close) ==
    <<open_time, Str("1"), Str("2"), Str("3"), close, Str("4"), Num(5), Str("6"),
      Num(7), Str("8"), Str("9"), Str("0")>>

Klines ==
    {Kline(Num(60000), Str(x)) : x \in {"50000.129", "999.995", "0", "-100", "NaN", "inf", "abc"}}
    \cup {Kline(Num(60000), Num(50000)),
          Kline(Str("x"), Str("50000.129")),
          Kline(<<"float", 0>>, Str("50000.129")),
          <<Num(60000), Str("1"), Str("2"), Str("3")>>,
          <<>>}

Responses ==
    {Response("err", 0, "ok", <<>>)}
    \cup {Response("ok", st, "ok", <<>>) :
            st \in {204, 301, 400, 401, 403, 404, 418, 429, 500, 503}}
    \cup {Response("ok", 200, "err", <<>>), Response("ok", 200, "ok", <<>>)}
    \cup {Response("ok", 200, "ok", <<k>>) : k \in Klines}

InitFetch ==
    /\ EngineAt(<<>>, EmptyMap)
    /\ PureIdle
    /\ f_pc = "attempt"
    /\ attempt = 1
    /\ waited = 0
    /\ f_result = <<"none">>
    /\ f_hist = <<>>

\* lines 46-72: one pass of the loop body on the response r
FetchAttempt(r) ==
    /\ f_pc = "attempt"
    /\ LET res == fetch_btc_price_once(r, now)
           arm == RetryArm(res, attempt, MAX_RETRIES) IN
       /\ f_hist' = Append(f_hist, res)
       /\ f_pc' = arm
       /\ f_result' = IF arm \in {"success", "failure"} THEN res ELSE f_result
    /\ UNCHANGED <<attempt, waited, pure_vars, engine_vars>>

\* line 63: sleep, then the next pass of `for attempt in 1..=max_retries`,
\* or line 75 when there is none
FetchSleep ==
    /\ f_pc = "sleep"
    /\ waited' = waited + wait_time(attempt)
    /\ now' = now + wait_time(attempt)
    /\ attempt' = attempt + 1
    /\ f_pc' = IF attempt + 1 <= MAX_RETRIES THEN "attempt" ELSE "unreachable"
    /\ UNCHANGED <<f_result, f_hist, pure_vars, ticks, calls, prices, active_nodes,
                   waitq, rheld, pc, req, cur, recent, resp, granted, swept_at>>

NextFetch ==
    \/ \E r \in Responses : FetchAttempt(r)
    \/ FetchSleep

SpecFetch == InitFetch /\ [][NextFetch]_vars

(***************************************************************************)
(* Claims about the retry loop (SpecFetch).                                *)
(***************************************************************************)
Failed(i) == f_hist[i][1] = "err"

\* C8: a fetch ends in Success or in Failure and nowhere else, after at
\* most MAX_RETRIES attempts: Success is the first attempt that succeeds,
\* Failure is reached exactly when all MAX_RETRIES attempts failed and
\* returns the last attempt's error; the loop never falls through.
C8_EndsInSuccessOrFailure ==
    /\ f_pc \in {"attempt", "sleep", "success", "failure"}
    /\ attempt <= MAX_RETRIES
    /\ Len(f_hist) <= MAX_RETRIES
    /\ f_pc = "success" =>
          /\ Len(f_hist) = attempt
          /\ f_hist[attempt][1] = "ok"
          /\ \A i \in 1..(attempt - 1) : Failed(i)
          /\ f_result = f_hist[attempt]
    /\ f_pc = "failure" <=>
          /\ Len(f_hist) = MAX_RETRIES
          /\ \A i \in 1..MAX_RETRIES : Failed(i)
    /\ f_pc = "failure" => f_result = f_hist[MAX_RETRIES]

RECURSIVE DelaysBefore(_)
DelaysBefore(n) == IF n <= 1 THEN 0 ELSE 2 ^ (n - 2) + DelaysBefore(n - 1)

\* C9: the only waits are the ones between a failed attempt n < MAX_RETRIES
\* and attempt n + 1, of 2^(n-1) seconds each: before attempt 1 nothing has
\* been waited, before attempt 2 one second, before attempt 3 three; a wait
\* is entered only after a failed attempt that is not the last.
C9_WaitsOnlyBetweenAttempts ==
    /\ waited = DelaysBefore(attempt)
    /\ now = T0 + waited
    /\ attempt = 2 => waited = 1
    /\ attempt = 3 => waited = 1 + 2
    /\ f_pc = "sleep" =>
          /\ attempt < MAX_RETRIES
          /\ Len(f_hist) = attempt
          /\ Failed(attempt)
    /\ f_pc # "sleep" /\ f_pc # "attempt" => Len(f_hist) = attempt

\* C9 witness: two failed attempts, then a success: 3 attempts, 3 seconds
C9_Witness ==
    /\ f_pc = "success"
    /\ Len(f_hist) = 3
    /\ Failed(1)
    /\ Failed(2)
    /\ f_hist[3][1] = "ok"
    /\ waited = 3

\* C10: every failure of a single attempt comes back to the retry loop as
\* an error value: each attempt ends in Ok or in Err.
C10_AttemptFailuresAreErrors ==
    \A i \in 1..Len(f_hist) : f_hist[i][1] \in {"ok", "err"}

(***************************************************************************)
(* Claims about what a SubmitPrice call answers (Spec).                    *)
(***************************************************************************)

\* the log after the first k submissions stored
LogAfter(k) == LastN(SubSeq(granted, 1, k), Min(k, MAX_ENTRIES))

\* C11: the aggregated_price of a SubmitPrice response is the consensus of
\* the log as it stood when that submission's own append, trim, touch and
\* sweep had been applied: present exactly when that log holds a fresh
\* entry, and untouched by the submissions stored after it.
C11_SubmitAnswersOwnLog ==
    [][\A p \in Procs :
          (pc[p] = "median_compute" /\ resp'[p].op = "submit") =>
             LET own == LogAfter(swept_at[p]) IN
             /\ (resp'[p].aggregated_price # <<"none">>)
                   <=> (\E i \in 1..Len(own) : IsFresh(own[i], now))
             /\ resp'[p].aggregated_price = calculate_median_price(own, now, FALSE)]_vars

(***************************************************************************)
(* The read operations on an engine nobody submits to (SpecReads): the     *)
(* engine as earlier submissions of n1 and n2 left it, n2's the last one,  *)
(* or the engine as constructed.                                           *)
(***************************************************************************)

MaxReadLog == 12    \* longest log of SpecReads

\* the i-th of n entries: prices differ, ages run from 10 * n down to 10
ReadEntry(i, n) ==
    PriceEntry(Units(100 + i), T0 - 10 * (n - i + 1), "binance",
               IF (n - i) % 2 = 0 THEN "n2" ELSE "n1")

ReadLog(n) == [i \in 1..n |-> ReadEntry(i, n)]

\* n1 was last seen more than LIVENESS_TIMEOUT ago, n2 FRESHNESS_WINDOW ago
ReadMap ==
    Insert(Insert(EmptyMap, "n1", T0 - LIVENESS_TIMEOUT - 1),
           "n2", T0 - FRESHNESS_WINDOW)

InitReads ==
    /\ \/ EngineAt(<<>>, EmptyMap)
       \/ \E n \in 2..MaxReadLog : EngineAt(ReadLog(n), ReadMap)
    /\ PureIdle
    /\ FetchIdle

StepReads(p) ==
    \/ HealthRead(p)
    \/ HealthRespond(p)
    \/ GetRead(p)
    \/ GetRecent(p)
    \/ GetMedianRead(p)
    \/ \E overflow_checks \in BOOLEAN : GetRespond(p, overflow_checks)

NextReads ==
    \/ \E d \in TickSteps : Tick(d)
    \/ \E p \in Procs : StepReads(p)

SpecReads == InitReads /\ [][NextReads]_vars

ReadPcs == {"health_respond", "get_recent", "get_median_read", "get_respond"}

\* task p takes a step of HealthCheck or GetAggregatedPrice
ReadStepOf(p) == pc'[p] # pc[p] /\ (pc[p] \in ReadPcs \/ pc'[p] \in ReadPcs)

\* no task is in, enters or leaves SubmitPrice
NoSubmitStep == \A p \in Procs : pc[p] \in ReadPcs \cup {"idle"} /\ pc'[p] \in ReadPcs \cup {"idle"}

\* C12: a step of HealthCheck or GetAggregatedPrice leaves the log and the
\* liveness map as they are (no sweep), so does any step in which no
\* SubmitPrice takes part, time passing included; and HealthCheck reports the
\* number of records in the map, however old they are.
C12_ReadsLeaveStateAlone ==
    [][/\ \A p \in Procs :
             ReadStepOf(p) =>
                /\ prices' = prices
                /\ active_nodes' = active_nodes
                /\ pc[p] = "health_respond" =>
                      resp'[p].active_nodes = Cardinality(DOMAIN active_nodes)
       /\ NoSubmitStep => (prices' = prices /\ active_nodes' = active_nodes)]_vars

\* C12 witness: with no submission, after time has passed, HealthCheck
\* counts two reporters that were both last seen LIVENESS_TIMEOUT ago or more
C12_Witness ==
    \E p \in Procs :
       /\ resp[p].op = "health"
       /\ resp[p].timestamp > T0
       /\ resp[p].active_nodes = 2
       /\ \A n \in Nodes : resp[p].timestamp - active_nodes[n] >= LIVENESS_TIMEOUT
       /\ Len(prices) >= 2
       /\ granted = prices

(***************************************************************************)
(* Claims about what stays in the log (Spec).                              *)
(***************************************************************************)

\* entry e is outside the freshness window at time t
IsStaleAt(e, t) == e.timestamp <= t /\ t - e.timestamp >= FRESHNESS_WINDOW

\* C13: staleness never removes a log entry.  As long as no more than
\* MAX_ENTRIES submissions were stored the log holds every one of them,
\* whatever its age, and beyond that only the oldest ones are gone; and a
\* GetAggregatedPrice response that lists the whole log, every entry of it
\* stale, lists those entries while its consensus is the absent one.
C13_StaleEntriesStay ==
    /\ Len(prices) = Min(Len(granted), MAX_ENTRIES)
    /\ \A k \in 1..Len(prices) :
          prices[k] = granted[Len(granted) - Len(prices) + k]
    /\ \A p \in Procs :
          (/\ resp[p].op = "get"
           /\ resp[p].data_points < RECENT_COUNT
           /\ \A i \in 1..Len(resp[p].recent_prices) :
                 IsStaleAt(resp[p].recent_prices[i], resp[p].last_update))
          => /\ resp[p].aggregated_price = Fin(0)
             /\ resp[p].data_points = Len(resp[p].recent_prices)

\* C13 witness: one submission, FRESHNESS_WINDOW seconds or more later a
\* GetAggregatedPrice: no consensus, and the entry is listed and in the log
C13_Witness ==
    \E p \in Procs :
       /\ resp[p].op = "get"
       /\ resp[p].data_points = 1
       /\ IsStaleAt(resp[p].recent_prices[1], resp[p].last_update)
       /\ resp[p].aggregated_price = Fin(0)
       /\ prices = <<resp[p].recent_prices[1]>>
       /\ granted = prices

(***************************************************************************)
(* The sweep (SpecSweep): a SubmitPrice of n1 that has stored its entry    *)
(* and waits for the write lock of cleanup_inactive_nodes, on an engine    *)
(* where other reporters submitted once and have been silent since.        *)
(***************************************************************************)

SilentNodes == <<"n2", "n3", "n4">>

\* how long ago a silent reporter was last seen
SilentAges == {LIVENESS_TIMEOUT - 1, LIVENESS_TIMEOUT, LIVENESS_TIMEOUT + 1}

Range(s) == {s[i] : i \in 1..Len(s)}

\* the liveness maps of the silent reporters
SilentMaps ==
    UNION {[S -> {T0 - a : a \in SilentAges}] : S \in SUBSET Range(SilentNodes)}

\* their one entry each, then the entry n1 has just stored
SweepLog(m) ==
    LET present == SelectSeq(SilentNodes, LAMBDA n : n \in DOMAIN m) IN
    [i \in 1..Len(present) |->
        PriceEntry(Units(100), m[present[i]], "binance", present[i])]
    \o <<PriceEntry(Units(100), T0, "binance", "n1")>>

InitSweep ==
    /\ \E m \in SilentMaps :
          /\ prices = SweepLog(m)
          /\ granted = SweepLog(m)
          /\ active_nodes = Insert(m, "n1", T0)
    /\ now = T0
    /\ ticks = 0
    /\ calls = 1
    /\ waitq = <<<<"t1", "W">>>>
    /\ rheld = {}
    /\ pc = [p \in Procs |-> IF p = "t1" THEN "cleanup_retain" ELSE "idle"]
    /\ req = [p \in Procs |-> NoReq]
    /\ cur = [p \in Procs |-> IF p = "t1" THEN T0 ELSE 0]
    /\ recent = [p \in Procs |-> <<>>]
    /\ resp = [p \in Procs |-> NoResp]
    /\ swept_at = [p \in Procs |-> 0]
    /\ PureIdle
    /\ FetchIdle

StepSweep(p) ==
    \/ \E overflow_checks \in BOOLEAN : CleanupRetain(p, overflow_checks)
    \/ SubmitMedianRead(p)
    \/ \E overflow_checks \in BOOLEAN : SubmitRespond(p, overflow_checks)
    \/ HealthRead(p)
    \/ HealthRespond(p)

NextSweep ==
    \/ \E d \in TickSteps : Tick(d)
    \/ \E p \in Procs : StepSweep(p)

SpecSweep == InitSweep /\ [][NextSweep]_vars

\* C14: a sweep at time now removes exactly the records with
\* now - last_seen >= LIVENESS_TIMEOUT and leaves every other record as it
\* is; a second sweep at the same time would remove nothing.
C14_SweepRemovesExactlyStale ==
    [][\A p \in Procs :
          (pc[p] = "cleanup_retain" /\ pc'[p] = "median_read") =>
             /\ DOMAIN active_nodes' =
                   {n \in DOMAIN active_nodes : now - active_nodes[n] < LIVENESS_TIMEOUT}
             /\ \A n \in DOMAIN active_nodes' : active_nodes'[n] = active_nodes[n]
             /\ \A n \in DOMAIN active_nodes' : now - active_nodes'[n] < LIVENESS_TIMEOUT
             /\ Sweep(active_nodes', now) = active_nodes']_vars

\* C14 witness: n2 submitted once LIVENESS_TIMEOUT + 1 seconds ago, n3 one
\* second less than LIVENESS_TIMEOUT ago; after the sweep that n1's
\* submission triggered, HealthCheck counts n1 and n3 and no longer n2
C14_Witness ==
    \E p \in Procs :
       /\ resp[p].op = "health"
       /\ resp[p].active_nodes = 2
       /\ now = T0
       /\ \E i \in 1..Len(granted) :
             /\ granted[i].node_id = "n2"
             /\ now - granted[i].timestamp = LIVENESS_TIMEOUT + 1
       /\ \E i \in 1..Len(granted) :
             /\ granted[i].node_id = "n3"
             /\ active_nodes = Insert(Insert(EmptyMap, "n1", T0), "n3", granted[i].timestamp)
             /\ now - granted[i].timestamp = LIVENESS_TIMEOUT - 1

(***************************************************************************)
(* Validation and conversion of one close price (SpecPrice), prices in     *)
(* thousandths as in ParseF64.                                             *)
(***************************************************************************)

MaxSmallPrice == 40    \* SpecPrice tries every price of -0.040 .. 0.040

\* the warn! calls of lines 183-189: which of them validate_price makes
price_warnings(price) ==
    (IF FLt(price, Fin(1000 * 1000)) THEN {"low"} ELSE {})
       \cup (IF FLt(Fin(1000000 * 1000), price) THEN {"high"} ELSE {})

\* lines 148 and 156: `validate_price(close_price)?`, then the price field
CheckedCents(close_price) ==
    IF ~validate_price(close_price) THEN <<"err", "Invalid price: must be positive">>
    ELSE <<"ok", ToCents(close_price), price_warnings(close_price)>>

PriceInputs ==
    {Fin(v) : v \in (0 - MaxSmallPrice)..MaxSmallPrice}
       \cup {Fin(v) : v \in {-100000, 999995, 999999, 1000000, 1000001, 50000000,
                             50000124, 50000125, 50000129,
                             999999999, 1000000000, 1000000001}}
       \cup {NaN, PosInf, NegInf}

InitPrice ==
    /\ EngineAt(<<>>, EmptyMap)
    /\ median_result = <<"idle">>
    /\ price_in \in PriceInputs
    /\ price_out = <<"idle">>
    /\ FetchIdle

CheckPrice ==
    /\ price_out = <<"idle">>
    /\ price_out' = CheckedCents(price_in)
    /\ UNCHANGED <<price_in, median_result, engine_vars, fetch_vars>>

NextPrice == CheckPrice

SpecPrice == InitPrice /\ [][NextPrice]_vars

IsFinite(f) == f[1] = "fin"

\* C15: the validator rejects zero, every negative value and every
\* non-finite value (NaN, +infinity, -infinity) and accepts every finite
\* value above zero, with a warning and nothing else for the values below
\* 1000 and above 1,000,000.
C15_ValidatorAcceptsFinitePositive ==
    price_out # <<"idle">> =>
       /\ price_out[1] = "err" <=> ~(IsFinite(price_in) /\ price_in[2] > 0)
       /\ price_out[1] = "ok" =>
             /\ "low" \in price_out[3] <=> price_in[2] < 1000 * 1000
             /\ "high" \in price_out[3] <=> price_in[2] > 1000000 * 1000

\* C17: for every finite price the validator accepts, the price field is
\* the price times 100 rounded to the nearest integer, not truncated.
C17_CentsRoundedToNearest ==
    (price_out # <<"idle">> /\ IsFinite(price_in) /\ price_in[2] > 0) =>
       /\ price_out[1] = "ok"
       /\ price_out[2] = <<"u64", (price_in[2] + 5) \div 10>>

(***************************************************************************)
(* Claim about the recent entries of GetAggregatedPrice (SpecReads).       *)
(***************************************************************************)

\* C16: the recent entries of a GetAggregatedPrice response are the last
\* min(RECENT_COUNT, length) entries of the log, newest first, each equal
\* field by field to the logged entry, and the log is left as it was.
C16_RecentIsNewestFirst ==
    \A p \in Procs :
       resp[p].op = "get" =>
          LET r == resp[p].recent_prices
              len == Len(prices) IN
          /\ Len(r) = Min(RECENT_COUNT, len)
          /\ resp[p].data_points = Len(r)
          /\ \A i \in 1..Len(r) :
                /\ r[i].price = prices[len + 1 - i].price
                /\ r[i].timestamp = prices[len + 1 - i].timestamp
                /\ r[i].source = prices[len + 1 - i].source
                /\ r[i].node_id = prices[len + 1 - i].node_id
          /\ prices = granted

\* C16 witness: a response on a log of more than RECENT_COUNT entries
C16_Witness ==
    \E p \in Procs :
       /\ resp[p].op = "get"
       /\ Len(prices) > RECENT_COUNT
       /\ resp[p].data_points = RECENT_COUNT
       /\ resp[p].recent_prices[1] = prices[Len(prices)]
       /\ resp[p].recent_prices[RECENT_COUNT] = prices[Len(prices) + 1 - RECENT_COUNT]
       /\ resp[p].recent_prices[1] # resp[p].recent_prices[RECENT_COUNT]

(***************************************************************************)
(* Claim about what a GetAggregatedPrice call answers (Spec).              *)
(***************************************************************************)

\* C18: a GetAggregatedPrice response is made from one snapshot of the
\* log: no submission is stored between the reading of the recent entries
\* and the computation of the consensus, the aggregated_price is the median
\* of the fresh entries of the log the recent entries came from, and it is
\* the sentinel 0 exactly when that log has no fresh entry.
C18_GetAnswersOneSnapshot ==
    [][\A p \in Procs :
          /\ pc[p] \in {"get_median_read", "get_respond"} => prices' = prices
          /\ (pc[p] = "get_respond" /\ resp'[p].op = "get") =>
                LET fresh == SelectSeq(prices, LAMBDA e : IsFresh(e, now)) IN
                /\ resp'[p].recent_prices = RecentOf(prices)
                /\ fresh # <<>> =>
                      resp'[p].aggregated_price = MedianOfSorted(SortPrices(PricesOf(fresh)))
                /\ resp'[p].aggregated_price = Fin(0) <=> fresh = <<>>]_vars

(***************************************************************************)
(* Claim about entries observed ahead of the clock (SpecMedian).           *)
(***************************************************************************)

\* the prices of the entries whose signed age at t is below the window:
\* an entry observed later than t has a negative age
PricesYoungerThanWindow(log, t) ==
    PricesOf(SelectSeq(log, LAMBDA e : Age(e, t) < FRESHNESS_WINDOW))

\* C19: the freshness test never underflows: on a log (of numbers) with an
\* entry whose observed_at is later than now the computation completes, the
\* entry counts as fresh, and the value is the median of the entries of
\* signed age below FRESHNESS_WINDOW.
C19_FutureEntryIsFresh ==
    (/\ median_result # <<"idle">>
     /\ \E i \in 1..Len(prices) : prices[i].timestamp > now
     /\ \A i \in 1..Len(prices) : ~IsNaN(prices[i].price))
        => /\ median_result[1] = "some"
           /\ IsStatisticalMedian(PricesYoungerThanWindow(prices, now), median_result[2])

====
